---- MODULE Spec2Model ----
(***************************************************************************)
(* Model of tsv-mt-openai: scripts/placeholders.py (placeholder masking,   *)
(* restoration and QA comparison) and scripts/translate_tsv.py (batching,  *)
(* retrying HTTP client, row pipeline).                                    *)
(*                                                                         *)
(* A text is a sequence of one-character strings.                          *)
(***************************************************************************)
EXTENDS Integers, Sequences, FiniteSets, TLC

(***************************************************************************)
(* Character classes used by the regular expressions of placeholders.py.   *)
(***************************************************************************)
Digits == {"0", "1", "2", "3", "4", "5", "6", "7", "8", "9"}

Upper == {"A", "B", "C", "D", "E", "F", "G", "H", "I", "J", "K", "L", "M",
          "N", "O", "P", "Q", "R", "S", "T", "U", "V", "W", "X", "Y", "Z"}

Lower == {"a", "b", "c", "d", "e", "f", "g", "h", "i", "j", "k", "l", "m",
          "n", "o", "p", "q", "r", "s", "t", "u", "v", "w", "x", "y", "z"}

\* [A-Z0-9_]
MacroTail == Upper \cup Digits \cup {"_"}

\* [-+0-9.#]
PrintfFlags == {"-", "+", ".", "#"} \cup Digits

\* [a-zA-Z]
Letters == Lower \cup Upper

\* the characters str.strip() removes (those that occur in the model's texts)
Whitespace == {" ", "\t", "\n", "\r"}

(***************************************************************************)
(* Helpers on texts.                                                       *)
(***************************************************************************)
\* number of consecutive characters of t, from position i on, that are in S
RECURSIVE RunIn(_, _, _)
RunIn(t, i, S) ==
    IF i <= Len(t) /\ t[i] \in S THEN 1 + RunIn(t, i + 1, S) ELSE 0

\* number of consecutive characters of t, from position i on, other than c
RECURSIVE RunNot(_, _, _)
RunNot(t, i, c) ==
    IF i <= Len(t) /\ t[i] # c THEN 1 + RunNot(t, i + 1, c) ELSE 0

\* whether pat occurs in t at position i
StartsAt(t, i, pat) ==
    /\ i >= 1
    /\ i + Len(pat) - 1 <= Len(t)
    /\ \A k \in 1..Len(pat) : t[i + k - 1] = pat[k]

\* the decimal digits of a natural number, as str(n) / f"{n}" writes them
DigitChar(d) ==
    CASE d = 0 -> "0" [] d = 1 -> "1" [] d = 2 -> "2" [] d = 3 -> "3"
      [] d = 4 -> "4" [] d = 5 -> "5" [] d = 6 -> "6" [] d = 7 -> "7"
      [] d = 8 -> "8" [] d = 9 -> "9"

RECURSIVE IntToStr(_)
IntToStr(n) ==
    IF n < 10 THEN <<DigitChar(n)>>
    ELSE Append(IntToStr(n \div 10), DigitChar(n % 10))

\* f"__PH{n}__"
PHToken(n) == <<"_", "_", "P", "H">> \o IntToStr(n) \o <<"_", "_">>

\* str.strip()
RECURSIVE LStrip(_)
LStrip(t) ==
    IF t # <<>> /\ Head(t) \in Whitespace THEN LStrip(Tail(t)) ELSE t

RECURSIVE RStrip(_)
RStrip(t) ==
    IF t # <<>> /\ t[Len(t)] \in Whitespace
    THEN RStrip(SubSeq(t, 1, Len(t) - 1)) ELSE t

Strip(t) == RStrip(LStrip(t))

(***************************************************************************)
(* PLACEHOLDER_PATTERN: the five alternatives, tried in order at one       *)
(* position.  Each operator gives the length of the match of its           *)
(* alternative at position i of t, 0 when it does not match there (every   *)
(* match has at least two characters).                                     *)
(***************************************************************************)
\* (\\[nt])
MatchEscape(t, i) ==
    IF /\ i + 1 <= Len(t)
       /\ t[i] = "\\"
       /\ t[i + 1] \in {"n", "t"}
    THEN 2 ELSE 0

\* (%[A-Z][A-Z0-9_]+)
MatchMacro(t, i) ==
    IF /\ i + 2 <= Len(t)
       /\ t[i] = "%"
       /\ t[i + 1] \in Upper
       /\ t[i + 2] \in MacroTail
    THEN 2 + RunIn(t, i + 2, MacroTail) ELSE 0

\* (%[-+0-9.#]*[a-zA-Z])
MatchPrintf(t, i) ==
    IF i <= Len(t) /\ t[i] = "%"
    THEN LET k == RunIn(t, i + 1, PrintfFlags)
         IN  IF i + 1 + k <= Len(t) /\ t[i + 1 + k] \in Letters
             THEN 2 + k ELSE 0
    ELSE 0

\* an opening delimiter, one or more characters other than the closing
\* delimiter, the closing delimiter
MatchDelimited(t, i, open, close) ==
    IF i <= Len(t) /\ t[i] = open
    THEN LET k == RunNot(t, i + 1, close)
         IN  IF k >= 1 /\ i + 1 + k <= Len(t) THEN 2 + k ELSE 0
    ELSE 0

\* (\{[^}]+\})
MatchBrace(t, i) == MatchDelimited(t, i, "{", "}")

\* (<[^>]+>)
MatchTag(t, i) == MatchDelimited(t, i, "<", ">")

\* PLACEHOLDER_PATTERN at position i: the first alternative that matches
PLACEHOLDER_PATTERN(t, i) ==
    IF MatchEscape(t, i) > 0 THEN MatchEscape(t, i)
    ELSE IF MatchMacro(t, i) > 0 THEN MatchMacro(t, i)
    ELSE IF MatchPrintf(t, i) > 0 THEN MatchPrintf(t, i)
    ELSE IF MatchBrace(t, i) > 0 THEN MatchBrace(t, i)
    ELSE MatchTag(t, i)

\* PH_RE = __PH\d+__ at position i: length of the match, 0 when none
PH_RE(t, i) ==
    IF StartsAt(t, i, <<"_", "_", "P", "H">>)
    THEN LET k == RunIn(t, i + 4, Digits)
         IN  IF k >= 1 /\ StartsAt(t, i + 4 + k, <<"_", "_">>)
             THEN 6 + k ELSE 0
    ELSE 0

\* PH_RE.findall(t): the non-overlapping matches, left to right
RECURSIVE FindAllFrom(_, _)
FindAllFrom(t, i) ==
    IF i > Len(t) THEN <<>>
    ELSE LET n == PH_RE(t, i)
         IN  IF n > 0
             THEN <<SubSeq(t, i, i + n - 1)>> \o FindAllFrom(t, i + n)
             ELSE FindAllFrom(t, i + 1)

findall(t) == FindAllFrom(t, 1)

(***************************************************************************)
(* placeholders.py                                                         *)
(***************************************************************************)
\* the index of literal lit in lits, 0-based; Len(lits) when it is not there
IndexOfLiteral(lits, lit) ==
    IF \E k \in 1..Len(lits) : lits[k] = lit
    THEN (CHOOSE k \in 1..Len(lits) :
              lits[k] = lit /\ \A q \in 1..(k - 1) : lits[q] # lit) - 1
    ELSE Len(lits)

\* MaskFrom that numbers a literal by its first occurrence and records it
\* once
RECURSIVE MaskFrom_FirstOccurrence(_, _, _, _)
MaskFrom_FirstOccurrence(t, i, masked_, placeholders_) ==
    IF i > Len(t)
    THEN [masked |-> masked_, placeholders |-> placeholders_]
    ELSE LET n   == PLACEHOLDER_PATTERN(t, i)
             lit == SubSeq(t, i, i + n - 1)
             idx == IndexOfLiteral(placeholders_, lit)
         IN  IF n > 0
             THEN MaskFrom_FirstOccurrence(t, i + n,
                      masked_ \o PHToken(idx),
                      IF idx = Len(placeholders_)
                      THEN Append(placeholders_, lit) ELSE placeholders_)
             ELSE MaskFrom_FirstOccurrence(t, i + 1, Append(masked_, t[i]),
                                           placeholders_)

\* PLACEHOLDER_PATTERN.sub(repl, text) from position i on: masked is the
\* output so far, placeholders the literals recorded so far
RECURSIVE MaskFrom(_, _, _, _)
MaskFrom(t, i, masked, placeholders) ==
    IF i > Len(t)
    THEN [masked |-> masked, placeholders |-> placeholders]
    ELSE LET n == PLACEHOLDER_PATTERN(t, i)
         IN  IF n > 0
             THEN MaskFrom(t, i + n,
                           masked \o PHToken(Len(placeholders)),
                           Append(placeholders, SubSeq(t, i, i + n - 1)))
             ELSE MaskFrom(t, i + 1, Append(masked, t[i]), placeholders)

mask_placeholders(text) == MaskFrom(text, 1, <<>>, <<>>)

\* str.replace(old, new) from position i on (old is not empty)
RECURSIVE ReplaceFrom(_, _, _, _)
ReplaceFrom(t, i, old, new) ==
    IF i > Len(t) THEN <<>>
    ELSE IF StartsAt(t, i, old)
         THEN new \o ReplaceFrom(t, i + Len(old), old, new)
         ELSE <<t[i]>> \o ReplaceFrom(t, i + 1, old, new)

Replace(t, old, new) == ReplaceFrom(t, 1, old, new)

\* the loop of restore_placeholders from index idx (1-based here) on
RECURSIVE RestoreFrom(_, _, _)
RestoreFrom(text, placeholders, idx) ==
    IF idx > Len(placeholders) THEN text
    ELSE RestoreFrom(Replace(text, PHToken(idx - 1), placeholders[idx]),
                     placeholders, idx + 1)

restore_placeholders(text, placeholders) == RestoreFrom(text, placeholders, 1)

\* placeholders_match comparing the tokens as sets
placeholders_match_set(masked_source, masked_translation) ==
    { findall(masked_source)[k] : k \in 1..Len(findall(masked_source)) }
        = { findall(masked_translation)[k] :
                k \in 1..Len(findall(masked_translation)) }

\* placeholders_match comparing the number of tokens only
placeholders_match_count(masked_source, masked_translation) ==
    Len(findall(masked_source)) = Len(findall(masked_translation))

placeholders_match(masked_source, masked_translation) ==
    findall(masked_source) = findall(masked_translation)

(***************************************************************************)
(* translate_tsv.py: constants and configuration                           *)
(***************************************************************************)
MAX_CHARS_PER_REQUEST == 9000
DEFAULT_BATCH_SIZE == 8
DEFAULT_MAX_RETRIES == 12

\* an environment variable that is not set (os.getenv gives None)
Unset == [set |-> FALSE, value |-> <<>>]
EnvValue(t) == [set |-> TRUE, value |-> t]

\* --batch-size not given (argparse leaves None)
NoArg == [given |-> FALSE, val |-> 0]
ArgValue(n) == [given |-> TRUE, val |-> n]

\* the value of a sequence of decimal digits and underscores
RECURSIVE DigitsValue(_, _)
DigitsValue(s, acc) ==
    IF s = <<>> THEN acc
    ELSE IF Head(s) = "_" THEN DigitsValue(Tail(s), acc)
    ELSE DigitsValue(Tail(s),
                     10 * acc + (CHOOSE d \in 0..9 : DigitChar(d) = Head(s)))

\* what int() accepts after the sign: digits, single underscores between them
IsIntBody(s) ==
    /\ s # <<>>
    /\ \A k \in 1..Len(s) : s[k] \in Digits \cup {"_"}
    /\ s[1] \in Digits /\ s[Len(s)] \in Digits
    /\ \A k \in 1..(Len(s) - 1) : ~(s[k] = "_" /\ s[k + 1] = "_")

\* int(value): surrounding whitespace and a sign are accepted; ok is FALSE
\* where int() raises ValueError
ParseInt(value) ==
    LET s    == Strip(value)
        neg  == s # <<>> /\ Head(s) = "-"
        sign == s # <<>> /\ Head(s) \in {"-", "+"}
        body == IF sign THEN Tail(s) ELSE s
    IN  IF IsIntBody(body)
        THEN [ok |-> TRUE,
              val |-> IF neg THEN 0 - DigitsValue(body, 0)
                      ELSE DigitsValue(body, 0)]
        ELSE [ok |-> FALSE, val |-> 0]

env_int(env, default) ==
    IF ~env.set THEN default
    ELSE IF ParseInt(env.value).ok THEN ParseInt(env.value).val
    ELSE default

\* args.batch_size or env_int("TRANSLATE_BATCH_SIZE", DEFAULT_BATCH_SIZE)
ResolveBatchSize(arg, env) ==
    IF arg.given /\ arg.val # 0 THEN arg.val
    ELSE env_int(env, DEFAULT_BATCH_SIZE)

\* env_int("TRANSLATE_MAX_RETRIES", DEFAULT_MAX_RETRIES)
ResolveMaxRetries(env) == env_int(env, DEFAULT_MAX_RETRIES)

(***************************************************************************)
(* translate_tsv.py: the delay of post_with_retry after a 429.  Times are  *)
(* in milliseconds: 1.0 second is 1000.                                    *)
(***************************************************************************)
base_delay == 1000
max_delay == 15000

\* the upper end of random.uniform(0, 0.5)
max_jitter == 500

\* response.headers.get("Retry-After"): None when the header is absent
NoHeader == [set |-> FALSE, value |-> <<>>]
Header(t) == [set |-> TRUE, value |-> t]

Min(a, b) == IF a <= b THEN a ELSE b

\* 2**attempt
RECURSIVE Pow2(_)
Pow2(n) == IF n <= 0 THEN 1 ELSE 2 * Pow2(n - 1)

IsDigits(s) == \A k \in 1..Len(s) : s[k] \in Digits

\* the position of the first "." of s, 0 when there is none
RECURSIVE DotFrom(_, _)
DotFrom(s, i) ==
    IF i > Len(s) THEN 0 ELSE IF s[i] = "." THEN i ELSE DotFrom(s, i + 1)

\* the first three digits of a fraction, as thousandths
Thousandths(frac) ==
    DigitsValue(SubSeq(frac \o <<"0", "0", "0">>, 1, 3), 0)

\* float(value) for the decimal forms: surrounding whitespace, a sign,
\* digits, a point, digits (at least one digit in all); ok is FALSE where
\* float() raises ValueError.  The value is kept to the millisecond.
ParseFloat(value) ==
    LET s     == Strip(value)
        neg   == s # <<>> /\ Head(s) = "-"
        sign  == s # <<>> /\ Head(s) \in {"-", "+"}
        body  == IF sign THEN Tail(s) ELSE s
        dot   == DotFrom(body, 1)
        whole == IF dot = 0 THEN body ELSE SubSeq(body, 1, dot - 1)
        frac  == IF dot = 0 THEN <<>> ELSE SubSeq(body, dot + 1, Len(body))
        ms    == 1000 * DigitsValue(whole, 0) + Thousandths(frac)
    IN  IF IsDigits(whole) /\ IsDigits(frac) /\ Len(whole) + Len(frac) >= 1
        THEN [ok |-> TRUE, ms |-> IF neg THEN 0 - ms ELSE ms]
        ELSE [ok |-> FALSE, ms |-> 0]

\* min(max_delay, base_delay * (2**attempt))
Backoff(attempt_) == Min(max_delay, base_delay * Pow2(attempt_))

\* the delay before the jitter is added: lines 65 to 72
RetryDelay(retry_after_, attempt_) ==
    IF retry_after_.set /\ retry_after_.value # <<>>
    THEN IF ParseFloat(retry_after_.value).ok
         THEN ParseFloat(retry_after_.value).ms
         ELSE Backoff(attempt_)
    ELSE Backoff(attempt_)

\* time.sleep raises ValueError for a negative length
SleepRaises(ms) == ms < 0

(***************************************************************************)
(* translate_tsv.py: batched_indices.  Indices are the 0-based indices of  *)
(* the code; texts[i + 1] is the code's texts[i].                          *)
(***************************************************************************)
\* NeedFlush with > in place of >= on the item count
NeedFlush_OffByOne(current, current_chars, length, batch_size) ==
    /\ current # <<>>
    /\ \/ Len(current) > batch_size
       \/ current_chars + length > MAX_CHARS_PER_REQUEST

\* NeedFlush without the length of the item to come
NeedFlush_IgnoresLength(current, current_chars, length, batch_size) ==
    /\ current # <<>>
    /\ \/ Len(current) >= batch_size
       \/ current_chars > MAX_CHARS_PER_REQUEST

\* NeedFlush that closes the batch as soon as the cap would be reached
NeedFlush_AtCap(current, current_chars, length, batch_size) ==
    /\ current # <<>>
    /\ \/ Len(current) >= batch_size
       \/ current_chars + length >= MAX_CHARS_PER_REQUEST

\* the condition on which the current batch is closed before an item
NeedFlush(current, current_chars, length, batch_size) ==
    /\ current # <<>>
    /\ \/ Len(current) >= batch_size
       \/ current_chars + length > MAX_CHARS_PER_REQUEST

\* FinalFlush that drops the batch still open when the loop ends
FinalFlush_Missing(batches, current) == batches

\* the batches once the loop has ended
FinalFlush(batches, current) ==
    IF current # <<>> THEN Append(batches, current) ELSE batches

\* the loop over enumerate(texts), from index idx on
RECURSIVE BatchFrom(_, _, _, _, _, _)
BatchFrom(texts, batch_size, idx, batches, current, current_chars) ==
    IF idx >= Len(texts) THEN FinalFlush(batches, current)
    ELSE LET length == Len(texts[idx + 1])
         IN  IF NeedFlush(current, current_chars, length, batch_size)
             THEN BatchFrom(texts, batch_size, idx + 1,
                            Append(batches, current), <<idx>>, length)
             ELSE BatchFrom(texts, batch_size, idx + 1,
                            batches, Append(current, idx),
                            current_chars + length)

batched_indices(texts, batch_size) ==
    BatchFrom(texts, batch_size, 0, <<>>, <<>>, 0)

(***************************************************************************)
(* Bounded inputs of the placeholder functions: every concatenation of at  *)
(* most MaxPieces pieces.  The pieces are the characters the patterns      *)
(* distinguish and two mask tokens, so that texts holding placeholders of  *)
(* every class, broken placeholders and literal __PH<n>__ substrings all   *)
(* occur.                                                                  *)
(***************************************************************************)
MaxPieces == 3

Pieces ==
    { <<"a">>, <<" ">>, <<"%">>, <<"s">>, <<"{">>, <<"}">>, <<"<">>, <<">">>,
      <<"\\">>, <<"n">>, <<"_">>, <<"A">>, <<"1">>, PHToken(0), PHToken(1) }

RECURSIVE TextsOf(_)
TextsOf(n) ==
    IF n = 0 THEN { <<>> }
    ELSE LET shorter == TextsOf(n - 1)
         IN  shorter \cup { t \o p : t \in shorter, p \in Pieces }

\* at most MaxSegments segments in a text made of whole placeholders
MaxSegments == 3

\* a placeholder of every class, ordinary text, and a percent sign, which
\* makes a placeholder with the letter after it
Segments ==
    { <<"\\", "n">>, <<"%", "A", "B">>, <<"%", "s">>, <<"{", "a", "}">>,
      <<"<", "b", ">">>, <<"a">>, <<" ">>, <<"%">> }

RECURSIVE SegmentTextsOf(_)
SegmentTextsOf(n) ==
    IF n = 0 THEN { <<>> }
    ELSE LET shorter == SegmentTextsOf(n - 1)
         IN  shorter \cup { t \o p : t \in shorter, p \in Segments }

\* the texts of few characters and the texts of several placeholders
Texts == TextsOf(MaxPieces) \cup SegmentTextsOf(MaxSegments)

(***************************************************************************)
(* State.                                                                  *)
(***************************************************************************)
VARIABLES
    \* mask_placeholders / restore_placeholders applied to one text
    text, masked, placeholders, restored,
    \* placeholders_match applied to two texts: its arguments, its result
    qa_source, qa_translation, qa_result,
    \* main: position, configuration
    pc, key, region, arg_batch_size, env_batch_size, env_max_retries,
    overwrite, batch_size, max_retries,
    \* main: the table
    input_file, fieldnames, target_column, rows,
    \* main: counters of the summary
    total_rows, eligible_rows, translated_rows, skipped_rows, qa_failed,
    \* main: the work lists and the batch loop
    indices_to_translate, masked_sources, placeholder_lists,
    batches, batch_no,
    \* post_with_retry: loop counter, status of the last response
    attempt, response,
    \* post_with_retry: the Retry-After header of the last 429 response
    \* (NoHeader before any), the length of the sleep that followed it
    retry_after, delay,
    \* translate_batch: the body of the last response that was read as
    \* JSON, with the number of the batch it answers
    data,
    \* the requests of the call of post_with_retry in progress, each with
    \* the status it was answered with (0: requests.post raised)
    http_log,
    \* per row: the translation received for it, the counter it went to
    received, counted,
    \* the end of the run
    error, output, exit_code

qaVars == <<qa_source, qa_translation, qa_result>>

maskVars == <<text, masked, placeholders, restored, qaVars>>

configVars == <<key, region, arg_batch_size, env_batch_size, env_max_retries,
                overwrite>>

tableVars == <<input_file, fieldnames, target_column, rows>>

counterVars == <<total_rows, eligible_rows, translated_rows, skipped_rows,
                 qa_failed>>

workVars == <<indices_to_translate, masked_sources, placeholder_lists>>

sleepVars == <<retry_after, delay>>

vars == <<text, masked, placeholders, restored,
          qa_source, qa_translation, qa_result,
          pc, key, region, arg_batch_size, env_batch_size, env_max_retries,
          overwrite, batch_size, max_retries,
          input_file, fieldnames, target_column, rows,
          total_rows, eligible_rows, translated_rows, skipped_rows, qa_failed,
          indices_to_translate, masked_sources, placeholder_lists,
          batches, batch_no, attempt, response, retry_after, delay, data,
          http_log, received, counted, error, output, exit_code>>

\* values of variables that are not bound yet
None == "None"
Unbound == <<>>
Running == <<>>
NotWritten ==
    [written |-> FALSE, fieldnames |-> <<>>, lines |-> <<>>, rows |-> <<>>]

\* no input file read yet
NoFile == [fieldnames |-> <<>>, lines |-> <<>>, rows |-> <<>>]

(***************************************************************************)
(* Rows: csv.DictReader gives one dict per line, keyed by the header.      *)
(***************************************************************************)
\* row.get(col) or ""
RowGet(row, col) == IF col \in DOMAIN row THEN row[col] ELSE <<>>

\* the target column chosen from the header, None when there is none
TargetColumn(fields) ==
    LET names == { fields[k] : k \in 1..Len(fields) }
    IN  IF "translation" \in names THEN "translation"
        ELSE IF "translated" \in names THEN "translated"
        ELSE None

\* Classify that does not trim the target text
Classify_UntrimmedTarget(row, target, overwrite_) ==
    LET source_text == Strip(RowGet(row, "source"))
        target_text == RowGet(row, target)
    IN  IF source_text = <<>> THEN "skipped"
        ELSE IF target_text # <<>> /\ ~overwrite_ THEN "skipped"
        ELSE "eligible"

\* the classification of one row: "skipped" or "eligible"
Classify(row, target, overwrite_) ==
    LET source_text == Strip(RowGet(row, "source"))
        target_text == Strip(RowGet(row, target))
    IN  IF source_text = <<>> THEN "skipped"
        ELSE IF target_text # <<>> /\ ~overwrite_ THEN "skipped"
        ELSE "eligible"

\* the first loop of main over enumerate(rows), from index idx on; st holds
\* the counters and the work lists
RECURSIVE SelectFrom(_, _, _, _, _)
SelectFrom(rws, target, overwrite_, idx, st) ==
    IF idx >= Len(rws) THEN st
    ELSE IF Classify(rws[idx + 1], target, overwrite_) = "skipped"
    THEN SelectFrom(rws, target, overwrite_, idx + 1,
                    [st EXCEPT !.skipped_rows = @ + 1,
                               !.counted = Append(@, "skipped")])
    ELSE LET m == mask_placeholders(Strip(RowGet(rws[idx + 1], "source")))
         IN  SelectFrom(rws, target, overwrite_, idx + 1,
                 [st EXCEPT !.eligible_rows = @ + 1,
                            !.counted = Append(@, "eligible"),
                            !.indices_to_translate = Append(@, idx),
                            !.masked_sources = Append(@, m.masked),
                            !.placeholder_lists = Append(@, m.placeholders)])

Select(rws, target, overwrite_) ==
    SelectFrom(rws, target, overwrite_, 0,
               [skipped_rows |-> 0, eligible_rows |-> 0, counted |-> <<>>,
                indices_to_translate |-> <<>>, masked_sources |-> <<>>,
                placeholder_lists |-> <<>>])

(***************************************************************************)
(* translate_batch: the list of translations read from the response body.  *)
(* An item of the body is [has |-> whether it carries a translation,       *)
(* text |-> translations[0].text].                                         *)
(***************************************************************************)
\* Translations that leaves out the items without a translation
Translations_SkipsEmpty(items) ==
    LET kept == SelectSeq(items, LAMBDA i : i.has)
    IN  [k \in 1..Len(kept) |-> kept[k].text]

Translations(items) ==
    [k \in 1..Len(items) |-> IF items[k].has THEN items[k].text ELSE <<>>]

(***************************************************************************)
(* The second loop of main, over the zip of one batch's row indices,       *)
(* masked sources, placeholder lists and translations, from position k on. *)
(* st holds the rows and the counters.                                     *)
(***************************************************************************)
\* CommitItem that does not count a QA failure
CommitItem_UncountedFailure(st, target, idx, masked_source, phs, masked_translation) ==
    IF ~placeholders_match(masked_source, masked_translation)
    THEN [st EXCEPT !.counted[idx + 1] = "qa_failed",
                    !.received[idx + 1] = <<masked_translation>>]
    ELSE [st EXCEPT !.rows[idx + 1][target] =
                        restore_placeholders(masked_translation, phs),
                    !.translated_rows = @ + 1,
                    !.counted[idx + 1] = "translated",
                    !.received[idx + 1] = <<masked_translation>>]

\* what one item of the zip does to st
CommitItem(st, target, idx, masked_source, phs, masked_translation) ==
    IF ~placeholders_match(masked_source, masked_translation)
    THEN [st EXCEPT !.qa_failed = @ + 1,
                    !.counted[idx + 1] = "qa_failed",
                    !.received[idx + 1] = <<masked_translation>>]
    ELSE [st EXCEPT !.rows[idx + 1][target] =
                        restore_placeholders(masked_translation, phs),
                    !.translated_rows = @ + 1,
                    !.counted[idx + 1] = "translated",
                    !.received[idx + 1] = <<masked_translation>>]

RECURSIVE CommitFrom(_, _, _, _, _, _, _)
CommitFrom(st, target, batch_indices, batch_masked, batch_placeholders, batch_translations, k) ==
    IF \/ k > Len(batch_indices) \/ k > Len(batch_masked)
       \/ k > Len(batch_placeholders) \/ k > Len(batch_translations)
    THEN st
    ELSE CommitFrom(CommitItem(st, target, batch_indices[k], batch_masked[k],
                               batch_placeholders[k], batch_translations[k]),
                    target, batch_indices, batch_masked, batch_placeholders,
                    batch_translations, k + 1)

(***************************************************************************)
(* Bounded inputs of main.                                                 *)
(***************************************************************************)
\* at most MaxRows data rows in the input file
MaxRows == 2

\* at most MaxRateLimited responses with status 429 to one batch
MaxRateLimited == 2

\* values of AZURE_TRANSLATOR_KEY and AZURE_TRANSLATOR_REGION
Credentials == { Unset, EnvValue(<<>>), EnvValue(<<"k">>) }

ArgBatchSizes == { NoArg, ArgValue(1) }

EnvBatchSizes == { Unset }

EnvMaxRetries == { Unset, EnvValue(<<"0">>), EnvValue(<<"1">>) }

\* (source, existing target) of a data row: a placeholder between blanks
\* and a blank target; two placeholders, the first holding the text of a
\* mask token, and no target; no placeholder and a target already there; a
\* blank source beside a target
RowSamples ==
    { [source |-> <<" ", "%", "s", " ">>, target |-> <<" ">>],
      [source |-> <<"{">> \o PHToken(1) \o <<"}", "%", "s">>, target |-> <<>>],
      [source |-> <<"a">>, target |-> <<"d">>],
      [source |-> <<" ">>, target |-> <<"d">>] }

RECURSIVE RowListsOf(_)
RowListsOf(n) ==
    IF n = 0 THEN { <<>> }
    ELSE LET shorter == RowListsOf(n - 1)
         IN  shorter \cup { Append(l, r) : l \in shorter, r \in RowSamples }

\* header rows: none (an empty file), translated as the only target name,
\* both target names beside a column name that occurs twice, no source
\* column, no target column
Headers ==
    { <<>>,
      <<"source", "translated">>,
      <<"id", "translated", "source", "id", "translation">>,
      <<"id", "translation">>,
      <<"source", "note">> }

\* the cells of a data line under header h: the source and the target of
\* the sample in the columns main reads, the number of the column in every
\* other column.  Every line has as many cells as the header
MakeLine(h, sample) ==
    LET target == TargetColumn(h)
    IN  [c \in 1..Len(h) |->
            IF h[c] = "source" THEN sample.source
            ELSE IF h[c] = target THEN sample.target
            ELSE IntToStr(c)]

\* the last column of header h that has the name n
LastColumn(h, n) ==
    CHOOSE c \in 1..Len(h) :
        h[c] = n /\ \A d \in (c + 1)..Len(h) : h[d] # n

\* the dict csv.DictReader builds for a line under header h,
\* dict(zip(fieldnames, line)): a name that occurs twice keeps the cell of
\* its last column
MakeRow(h, line) ==
    [n \in { h[c] : c \in 1..Len(h) } |-> line[LastColumn(h, n)]]

\* the cells csv.DictWriter writes for a row: one per fieldname, in order
WriteRow(fields, row) == [c \in 1..Len(fields) |-> RowGet(row, fields[c])]

\* an input file: the header, the data lines, the rows list(reader) gives
FileOf(h, l) ==
    LET lines == IF h = <<>> THEN <<>>
                 ELSE [k \in 1..Len(l) |-> MakeLine(h, l[k])]
    IN  [fieldnames |-> h, lines |-> lines,
         rows |-> [k \in 1..Len(lines) |-> MakeRow(h, lines[k])]]

Files == { FileOf(h, l) : h \in Headers, l \in RowListsOf(MaxRows) }

\* a 429 response and the jitter drawn after it: no Retry-After header and
\* the least jitter, a negative Retry-After header and the greatest jitter
RateLimitedSamples ==
    { [retry_after |-> NoHeader, jitter |-> 0],
      [retry_after |-> Header(<<"-", "1">>), jitter |-> max_jitter] }

\* the status codes the service answers with, beside 429
OtherStatuses == { 200, 401, 500 }

\* raise_for_status raising for 5xx only
IsHTTPError_ServerOnly(status) == status >= 500 /\ status < 600

\* raise_for_status raises for 4xx and 5xx
IsHTTPError(status) == status >= 400 /\ status < 600

\* the mask tokens of m, concatenated in reverse order
RECURSIVE ConcatReversed(_)
ConcatReversed(toks) ==
    IF toks = <<>> THEN <<>> ELSE ConcatReversed(Tail(toks)) \o Head(toks)

\* m without its first mask token
WithoutFirstToken(m) ==
    IF findall(m) = <<>> THEN m
    ELSE LET tok == findall(m)[1]
             i   == CHOOSE j \in 1..Len(m) :
                        /\ StartsAt(m, j, tok)
                        /\ \A q \in 1..(j - 1) : ~StartsAt(m, q, tok)
         IN  SubSeq(m, 1, i - 1) \o SubSeq(m, i + Len(tok), Len(m))

\* what the service may answer for the masked text m: m itself, m with
\* other words, m with a token dropped, the tokens of m reordered and
\* nothing else, and an item that carries no translation
Items(m) ==
    { [has |-> TRUE, text |-> m],
      [has |-> TRUE, text |-> <<"u">> \o m],
      [has |-> TRUE, text |-> WithoutFirstToken(m)],
      [has |-> TRUE, text |-> ConcatReversed(findall(m))],
      [has |-> FALSE, text |-> <<>>] }

\* the lists of one item per text of ms
RECURSIVE ItemLists(_)
ItemLists(ms) ==
    IF ms = <<>> THEN { <<>> }
    ELSE { <<i>> \o rest : i \in Items(Head(ms)), rest \in ItemLists(Tail(ms)) }

\* the response bodies for a request with the texts ms: one item per text,
\* or one item too few, or one too many
Bodies(ms) ==
    LET same == [k \in 1..Len(ms) |-> [has |-> TRUE, text |-> ms[k]]]
    IN  ItemLists(ms)
        \cup { SubSeq(same, 1, Len(ms) - 1), Append(same, same[1]) }

(***************************************************************************)
(* main                                                                    *)
(***************************************************************************)
\* the parts of the state a run of main does not use
\* placeholders_match is not in use
QAIdle ==
    /\ qa_source = <<>>
    /\ qa_translation = <<>>
    /\ qa_result = Unbound

MaskIdle ==
    /\ text = <<>>
    /\ masked = <<>>
    /\ placeholders = <<>>
    /\ restored = <<>>
    /\ QAIdle

\* the state of main before the input file is read
NothingRead ==
    /\ input_file = NoFile
    /\ fieldnames = <<>>
    /\ target_column = None
    /\ rows = <<>>
    /\ total_rows = 0
    /\ eligible_rows = 0
    /\ translated_rows = 0
    /\ skipped_rows = 0
    /\ qa_failed = 0
    /\ indices_to_translate = <<>>
    /\ masked_sources = <<>>
    /\ placeholder_lists = <<>>
    /\ batches = <<>>
    /\ batch_no = 1
    /\ attempt = 0
    /\ response = Unbound
    /\ retry_after = NoHeader
    /\ delay = Unbound
    /\ data = Unbound
    /\ http_log = <<>>
    /\ received = <<>>
    /\ counted = <<>>
    /\ error = None
    /\ output = NotWritten
    /\ exit_code = Running

\* main up to the reading of the environment and the arguments
Init ==
    /\ MaskIdle
    /\ pc = "start"
    /\ key \in Credentials
    /\ region \in Credentials
    /\ arg_batch_size \in ArgBatchSizes
    /\ env_batch_size \in EnvBatchSizes
    /\ env_max_retries \in EnvMaxRetries
    /\ overwrite \in BOOLEAN
    /\ batch_size = ResolveBatchSize(arg_batch_size, env_batch_size)
    /\ max_retries = ResolveMaxRetries(env_max_retries)
    /\ NothingRead

\* return 1 after an error message
Fail(kind) ==
    /\ error' = kind
    /\ exit_code' = <<1>>
    /\ pc' = "exit"

\* not key: the variable is not set, or set to the empty string
Missing(env) == ~env.set \/ env.value = <<>>

CheckCredentials ==
    /\ pc = "start"
    /\ IF Missing(key) \/ Missing(region)
       THEN Fail("credentials")
       ELSE /\ pc' = "read"
            /\ UNCHANGED <<error, exit_code>>
    /\ UNCHANGED <<maskVars, configVars, batch_size, max_retries, tableVars,
                   counterVars, workVars, batches, batch_no, attempt,
                   response, sleepVars, data, http_log, received, counted, output>>

ReadInput ==
    /\ pc = "read"
    /\ \E f \in Files :
        /\ input_file' = f
        /\ IF f.fieldnames = <<>>
           THEN /\ Fail("header")
                /\ UNCHANGED <<fieldnames, target_column, rows>>
           ELSE /\ fieldnames' = f.fieldnames
                /\ target_column' = TargetColumn(f.fieldnames)
                /\ IF TargetColumn(f.fieldnames) = None
                   THEN /\ Fail("column")
                        /\ UNCHANGED rows
                   ELSE /\ rows' = f.rows
                        /\ pc' = "select"
                        /\ UNCHANGED <<error, exit_code>>
    /\ UNCHANGED <<maskVars, configVars, batch_size, max_retries,
                   counterVars, workVars, batches, batch_no, attempt,
                   response, sleepVars, data, http_log, received, counted, output>>

\* LoopPc leaving the loop one batch early
LoopPc_SkipsLast(bs, n) == IF n >= Len(bs) THEN "write" ELSE "post"

\* where the batch loop stands once batch number n is the next one
LoopPc(bs, n) == IF n > Len(bs) THEN "write" ELSE "post"

SelectRows ==
    /\ pc = "select"
    /\ LET st == Select(rows, target_column, overwrite)
       IN  /\ total_rows' = Len(rows)
           /\ eligible_rows' = st.eligible_rows
           /\ skipped_rows' = st.skipped_rows
           /\ counted' = st.counted
           /\ indices_to_translate' = st.indices_to_translate
           /\ masked_sources' = st.masked_sources
           /\ placeholder_lists' = st.placeholder_lists
           /\ batches' = batched_indices(st.masked_sources, batch_size)
    /\ received' = [k \in 1..Len(rows) |-> <<>>]
    /\ batch_no' = 1
    /\ attempt' = 0
    /\ response' = Unbound
    /\ retry_after' = NoHeader
    /\ delay' = Unbound
    /\ data' = Unbound
    /\ pc' = LoopPc(batches', 1)
    /\ UNCHANGED <<maskVars, configVars, batch_size, max_retries, tableVars,
                   translated_rows, qa_failed, http_log, error, output,
                   exit_code>>

\* BatchIndices that takes the position in the batch for the position in
\* the work lists
BatchIndices_Local ==
    [k \in 1..Len(batches[batch_no]) |-> indices_to_translate[k]]

\* the lists main builds for the batch it is at
BatchIndices == [k \in 1..Len(batches[batch_no]) |->
                    indices_to_translate[batches[batch_no][k] + 1]]

BatchMasked == [k \in 1..Len(batches[batch_no]) |->
                    masked_sources[batches[batch_no][k] + 1]]

BatchPlaceholders == [k \in 1..Len(batches[batch_no]) |->
                    placeholder_lists[batches[batch_no][k] + 1]]

\* a request as http_log keeps it: the batch it is for, the texts of its
\* payload, the status it was answered with
Sent(batch, payload, status) ==
    [batch |-> batch, payload |-> payload, status |-> status]

RateLimitedSoFar ==
    Cardinality({ k \in 1..Len(http_log) : http_log[k].status = 429 })

\* range(max_retries) has another attempt
Posting == pc = "post" /\ attempt < max_retries

\* a batch failed: main prints the error and returns 1
BatchFails(kind) ==
    /\ Fail(kind)
    /\ UNCHANGED <<rows, translated_rows, qa_failed, counted, received,
                   batch_no, attempt>>

\* requests.post raises (no connection, timeout)
PostRaises ==
    /\ Posting
    /\ http_log' = Append(http_log, Sent(batch_no, BatchMasked, 0))
    /\ BatchFails("RequestException")
    /\ UNCHANGED <<response, sleepVars, data, output>>
    /\ UNCHANGED <<maskVars, configVars, batch_size, max_retries,
                   input_file, fieldnames, target_column, total_rows,
                   eligible_rows, skipped_rows, workVars, batches>>

\* the 429 branch of the loop of post_with_retry for a response with the
\* Retry-After header h and the jitter j: the delay is computed, and
\* time.sleep either returns, and the loop goes to the next attempt, or
\* raises
RateLimited(h, j, payload) ==
    /\ http_log' = Append(http_log, Sent(batch_no, payload, 429))
    /\ response' = <<429>>
    /\ retry_after' = h
    /\ delay' = <<RetryDelay(h, attempt) + j>>
    /\ attempt' = IF SleepRaises(RetryDelay(h, attempt) + j)
                  THEN attempt ELSE attempt + 1
    /\ UNCHANGED data

\* status 429: sleep, then the next attempt; an exception of time.sleep
\* fails the batch
PostRateLimited ==
    /\ Posting
    /\ RateLimitedSoFar < MaxRateLimited
    /\ \E s \in RateLimitedSamples :
        /\ RateLimited(s.retry_after, s.jitter, BatchMasked)
        /\ IF SleepRaises(RetryDelay(s.retry_after, attempt) + s.jitter)
           THEN Fail("ValueError(sleep)")
           ELSE UNCHANGED <<pc, error, exit_code>>
    /\ UNCHANGED <<output, rows, translated_rows,
                   qa_failed, counted, received, batch_no>>
    /\ UNCHANGED <<maskVars, configVars, batch_size, max_retries,
                   input_file, fieldnames, target_column, total_rows,
                   eligible_rows, skipped_rows, workVars, batches>>

\* any other status: raise_for_status raises for the unsuccessful ones
PostHTTPError ==
    /\ Posting
    /\ \E status \in OtherStatuses :
        /\ IsHTTPError(status)
        /\ http_log' = Append(http_log, Sent(batch_no, BatchMasked, status))
        /\ response' = <<status>>
    /\ BatchFails("HTTPError")
    /\ UNCHANGED <<sleepVars, data, output>>
    /\ UNCHANGED <<maskVars, configVars, batch_size, max_retries,
                   input_file, fieldnames, target_column, total_rows,
                   eligible_rows, skipped_rows, workVars, batches>>

\* a status raise_for_status lets pass, with a body that is not the JSON
\* expected: response.json() or the loop over the items raises
PostBadBody ==
    /\ Posting
    /\ \E status \in OtherStatuses :
        /\ ~IsHTTPError(status)
        /\ http_log' = Append(http_log, Sent(batch_no, BatchMasked, status))
        /\ response' = <<status>>
    /\ BatchFails("JSONDecodeError")
    /\ UNCHANGED <<sleepVars, data, output>>
    /\ UNCHANGED <<maskVars, configVars, batch_size, max_retries,
                   input_file, fieldnames, target_column, total_rows,
                   eligible_rows, skipped_rows, workVars, batches>>

\* a status raise_for_status lets pass and a list of items: translate_batch
\* checks the count, main checks and commits every item and goes to the
\* next batch
PostOK ==
    /\ Posting
    /\ \E status \in OtherStatuses, body \in Bodies(BatchMasked) :
        /\ ~IsHTTPError(status)
        /\ data' = <<[batch |-> batch_no, items |-> body]>>
        /\ LET translations == Translations(body)
           IN
            IF Len(translations) # Len(BatchMasked)
            THEN /\ BatchFails("ValueError")
                 /\ response' = <<status>>
                 /\ UNCHANGED sleepVars
                 /\ http_log' = Append(http_log, Sent(batch_no, BatchMasked,
                                                      status))
            ELSE LET st == CommitFrom(
                             [rows |-> rows,
                              translated_rows |-> translated_rows,
                              qa_failed |-> qa_failed,
                              counted |-> counted,
                              received |-> received],
                             target_column, BatchIndices, BatchMasked,
                             BatchPlaceholders, translations, 1)
                 IN  /\ rows' = st.rows
                     /\ translated_rows' = st.translated_rows
                     /\ qa_failed' = st.qa_failed
                     /\ counted' = st.counted
                     /\ received' = st.received
                     /\ batch_no' = batch_no + 1
                     /\ attempt' = 0
                     /\ response' = Unbound
                     /\ retry_after' = NoHeader
                     /\ delay' = Unbound
                     /\ http_log' = <<>>
                     /\ pc' = LoopPc(batches, batch_no + 1)
                     /\ UNCHANGED <<error, exit_code>>
    /\ UNCHANGED output
    /\ UNCHANGED <<maskVars, configVars, batch_size, max_retries,
                   input_file, fieldnames, target_column, total_rows,
                   eligible_rows, skipped_rows, workVars, batches>>

\* range(max_retries) is exhausted: response.raise_for_status() after the
\* loop.  response is bound only if the loop ran, and then it holds the 429
\* of the last attempt, the one status the loop continues on
RetriesExhausted ==
    /\ pc = "post"
    /\ attempt >= max_retries
    /\ IF response = Unbound
       THEN BatchFails("UnboundLocalError")
       ELSE /\ IsHTTPError(response[1])
            /\ BatchFails("HTTPError")
    /\ UNCHANGED <<response, sleepVars, data, http_log, output>>
    /\ UNCHANGED <<maskVars, configVars, batch_size, max_retries,
                   input_file, fieldnames, target_column, total_rows,
                   eligible_rows, skipped_rows, workVars, batches>>

\* every batch is done: write the rows, print the summary, return 0
WriteOutput ==
    /\ pc = "write"
    /\ output' = [written |-> TRUE, fieldnames |-> fieldnames,
                  lines |-> [k \in 1..Len(rows) |->
                                WriteRow(fieldnames, rows[k])],
                  rows |-> rows]
    /\ exit_code' = <<0>>
    /\ pc' = "exit"
    /\ UNCHANGED <<maskVars, configVars, batch_size, max_retries, tableVars,
                   counterVars, workVars, batches, batch_no, attempt,
                   response, sleepVars, data, http_log, received, counted, error>>

Next ==
    \/ CheckCredentials
    \/ ReadInput
    \/ SelectRows
    \/ PostRaises
    \/ PostRateLimited
    \/ PostHTTPError
    \/ PostBadBody
    \/ PostOK
    \/ RetriesExhausted
    \/ WriteOutput

Spec == Init /\ [][Next]_vars

(***************************************************************************)
(* The placeholder functions alone: mask_placeholders on a text, then      *)
(* restore_placeholders on its result.                                     *)
(***************************************************************************)
\* the configuration of main where main does not run
ConfigIdle ==
    /\ key = Unset
    /\ region = Unset
    /\ arg_batch_size = NoArg
    /\ env_batch_size = Unset
    /\ env_max_retries = Unset
    /\ overwrite = FALSE
    /\ batch_size = DEFAULT_BATCH_SIZE
    /\ max_retries = DEFAULT_MAX_RETRIES

InitMask ==
    /\ pc = "mask"
    /\ text \in Texts
    /\ masked = <<>>
    /\ placeholders = <<>>
    /\ restored = <<>>
    /\ QAIdle
    /\ ConfigIdle
    /\ NothingRead

MaskText ==
    /\ pc = "mask"
    /\ masked' = mask_placeholders(text).masked
    /\ placeholders' = mask_placeholders(text).placeholders
    /\ pc' = "restore"
    /\ UNCHANGED <<text, restored, qaVars, configVars, batch_size, max_retries,
                   tableVars, counterVars, workVars, batches, batch_no,
                   attempt, response, sleepVars, data, http_log, received, counted, error,
                   output, exit_code>>

RestoreText ==
    /\ pc = "restore"
    /\ restored' = restore_placeholders(masked, placeholders)
    /\ pc' = "restored"
    /\ UNCHANGED <<text, masked, placeholders, qaVars, configVars, batch_size,
                   max_retries, tableVars, counterVars, workVars, batches,
                   batch_no, attempt, response, sleepVars, data, http_log, received, counted,
                   error, output, exit_code>>

NextMask == MaskText \/ RestoreText

SpecMask == InitMask /\ [][NextMask]_vars

(***************************************************************************)
(* placeholders_match alone, on two texts.                                 *)
(***************************************************************************)
\* at most MaxTokenPieces pieces in a text
MaxTokenPieces == 2

\* mask tokens with one digit and with two, ordinary text, an underscore,
\* and the tail of a token, which after a token overlaps it
TokenPieces ==
    { PHToken(0), PHToken(1), PHToken(10), <<"a">>, <<"_">>,
      <<"P", "H", "1", "_", "_">> }

RECURSIVE TokenTextsOf(_)
TokenTextsOf(n) ==
    IF n = 0 THEN { <<>> }
    ELSE LET shorter == TokenTextsOf(n - 1)
         IN  shorter \cup { t \o p : t \in shorter, p \in TokenPieces }

TokenTexts == TokenTextsOf(MaxTokenPieces)

InitMatch ==
    /\ pc = "match"
    /\ text = <<>>
    /\ masked = <<>>
    /\ placeholders = <<>>
    /\ restored = <<>>
    /\ qa_source \in TokenTexts
    /\ qa_translation \in TokenTexts
    /\ qa_result = Unbound
    /\ ConfigIdle
    /\ NothingRead

MatchTexts ==
    /\ pc = "match"
    /\ qa_result' = <<placeholders_match(qa_source, qa_translation)>>
    /\ pc' = "matched"
    /\ UNCHANGED <<text, masked, placeholders, restored, qa_source,
                   qa_translation, configVars, batch_size, max_retries,
                   tableVars, counterVars, workVars, batches, batch_no,
                   attempt, response, sleepVars, data, http_log, received,
                   counted, error, output, exit_code>>

NextMatch == MatchTexts

SpecMatch == InitMatch /\ [][NextMatch]_vars

(***************************************************************************)
(* The batcher alone: the batch size main resolves from --batch-size and   *)
(* TRANSLATE_BATCH_SIZE, and batched_indices on a list of texts.           *)
(***************************************************************************)
\* at most MaxTexts texts in the list
MaxTexts == 3

\* a text of n characters
Filler(n) == [k \in 1..n |-> "a"]

\* lengths around the character cap: two such texts fit one request or do
\* not, one text alone is over the cap
TextLengths ==
    { 1, MAX_CHARS_PER_REQUEST \div 2, MAX_CHARS_PER_REQUEST,
      MAX_CHARS_PER_REQUEST + 1 }

RECURSIVE TextListsOf(_)
TextListsOf(n) ==
    IF n = 0 THEN { <<>> }
    ELSE LET shorter == TextListsOf(n - 1)
         IN  shorter \cup { Append(l, Filler(c)) : l \in shorter, c \in TextLengths }

\* --batch-size: absent, zero, negative, positive
BatcherArgs == { NoArg, ArgValue(0), ArgValue(-1), ArgValue(3) }

\* TRANSLATE_BATCH_SIZE: not set, not a number, zero, negative, positive
BatcherEnvs ==
    { Unset, EnvValue(<<"x">>), EnvValue(<<"0">>), EnvValue(<<"-", "2">>),
      EnvValue(<<"1">>), EnvValue(<<" ", "2", " ">>) }

InitBatch ==
    /\ MaskIdle
    /\ pc = "batch"
    /\ key = Unset
    /\ region = Unset
    /\ arg_batch_size \in BatcherArgs
    /\ env_batch_size \in BatcherEnvs
    /\ env_max_retries = Unset
    /\ overwrite = FALSE
    /\ batch_size = ResolveBatchSize(arg_batch_size, env_batch_size)
    /\ max_retries = DEFAULT_MAX_RETRIES
    /\ input_file = NoFile
    /\ fieldnames = <<>>
    /\ target_column = None
    /\ rows = <<>>
    /\ total_rows = 0
    /\ eligible_rows = 0
    /\ translated_rows = 0
    /\ skipped_rows = 0
    /\ qa_failed = 0
    /\ indices_to_translate = <<>>
    /\ masked_sources \in TextListsOf(MaxTexts)
    /\ placeholder_lists = <<>>
    /\ batches = <<>>
    /\ batch_no = 1
    /\ attempt = 0
    /\ response = Unbound
    /\ retry_after = NoHeader
    /\ delay = Unbound
    /\ data = Unbound
    /\ http_log = <<>>
    /\ received = <<>>
    /\ counted = <<>>
    /\ error = None
    /\ output = NotWritten
    /\ exit_code = Running

BatchTexts ==
    /\ pc = "batch"
    /\ batches' = batched_indices(masked_sources, batch_size)
    /\ pc' = "batched"
    /\ UNCHANGED <<maskVars, configVars, batch_size, max_retries, tableVars,
                   counterVars, workVars, batch_no, attempt, response, sleepVars, data,
                   http_log, received, counted, error, output, exit_code>>

NextBatch == BatchTexts

SpecBatch == InitBatch /\ [][NextBatch]_vars

(***************************************************************************)
(* post_with_retry alone: one call with the texts of masked_sources as its *)
(* payload and the max_retries main resolves from TRANSLATE_MAX_RETRIES.   *)
(***************************************************************************)
\* at most MaxBackoffs responses with status 429 to the call
MaxBackoffs == 6

\* TRANSLATE_MAX_RETRIES: not set, zero, one, three
RetryEnvs == { Unset, EnvValue(<<"0">>), EnvValue(<<"1">>), EnvValue(<<"3">>) }

\* the Retry-After header of a 429 response: absent, empty, an HTTP date,
\* whole seconds, more than max_delay, a fraction between blanks, zero,
\* negative beyond the jitter, negative within the jitter
RetryAfterHeaders ==
    { NoHeader, Header(<<>>), Header(<<"F", "r", "i">>), Header(<<"2">>),
      Header(<<"2", "0">>), Header(<<" ", "1", ".", "5", " ">>),
      Header(<<"0">>), Header(<<"-", "1">>), Header(<<"-", "0", ".", "2">>) }

\* the values random.uniform(0, 0.5) gives: the ends and the middle
Jitters == { 0, max_jitter \div 2, max_jitter }

\* the texts of the request
Payloads == { <<<<"a">>>>, <<PHToken(0), <<"b">>>> }

InitRetry ==
    /\ MaskIdle
    /\ pc = "call"
    /\ key = Unset
    /\ region = Unset
    /\ arg_batch_size = NoArg
    /\ env_batch_size = Unset
    /\ env_max_retries \in RetryEnvs
    /\ overwrite = FALSE
    /\ batch_size = DEFAULT_BATCH_SIZE
    /\ max_retries = ResolveMaxRetries(env_max_retries)
    /\ input_file = NoFile
    /\ fieldnames = <<>>
    /\ target_column = None
    /\ rows = <<>>
    /\ total_rows = 0
    /\ eligible_rows = 0
    /\ translated_rows = 0
    /\ skipped_rows = 0
    /\ qa_failed = 0
    /\ indices_to_translate = <<>>
    /\ masked_sources \in Payloads
    /\ placeholder_lists = <<>>
    /\ batches = <<>>
    /\ batch_no = 1
    /\ attempt = 0
    /\ response = Unbound
    /\ retry_after = NoHeader
    /\ delay = Unbound
    /\ data = Unbound
    /\ http_log = <<>>
    /\ received = <<>>
    /\ counted = <<>>
    /\ error = None
    /\ output = NotWritten
    /\ exit_code = Running

\* what a step of the call leaves alone
CallFrame ==
    UNCHANGED <<maskVars, configVars, batch_size, max_retries, tableVars,
                counterVars, workVars, batches, batch_no, received, counted,
                output, exit_code>>

\* the call ends with an exception
Raise(kind) == error' = kind /\ pc' = "raised"

\* range(max_retries) has another attempt
Calling == pc = "call" /\ attempt < max_retries

\* requests.post raises
CallRaises ==
    /\ Calling
    /\ http_log' = Append(http_log, Sent(batch_no, masked_sources, 0))
    /\ Raise("RequestException")
    /\ UNCHANGED <<attempt, response, sleepVars, data>>
    /\ CallFrame

\* status 429
CallRateLimited ==
    /\ Calling
    /\ RateLimitedSoFar < MaxBackoffs
    /\ \E h \in RetryAfterHeaders, j \in Jitters :
        /\ RateLimited(h, j, masked_sources)
        /\ IF SleepRaises(RetryDelay(h, attempt) + j)
           THEN Raise("ValueError(sleep)")
           ELSE UNCHANGED <<pc, error>>
    /\ CallFrame

\* any other status: raise_for_status, then return response
CallAnswered ==
    /\ Calling
    /\ \E status \in OtherStatuses :
        /\ http_log' = Append(http_log, Sent(batch_no, masked_sources, status))
        /\ response' = <<status>>
        /\ IF IsHTTPError(status)
           THEN Raise("HTTPError")
           ELSE pc' = "returned" /\ UNCHANGED error
    /\ UNCHANGED <<attempt, sleepVars, data>>
    /\ CallFrame

\* range(max_retries) is exhausted: response.raise_for_status() after the
\* loop
CallExhausted ==
    /\ pc = "call"
    /\ attempt >= max_retries
    /\ IF response = Unbound
       THEN Raise("UnboundLocalError")
       ELSE IsHTTPError(response[1]) /\ Raise("HTTPError")
    /\ UNCHANGED <<attempt, response, sleepVars, data, http_log>>
    /\ CallFrame

NextRetry ==
    \/ CallRaises
    \/ CallRateLimited
    \/ CallAnswered
    \/ CallExhausted

SpecRetry == InitRetry /\ [][NextRetry]_vars

(***************************************************************************)
(* Properties.                                                             *)
(***************************************************************************)
\* the first position >= i at which pat occurs in t, 0 when there is none
RECURSIVE IndexFrom(_, _, _)
IndexFrom(t, i, pat) ==
    IF i + Len(pat) - 1 > Len(t) THEN 0
    ELSE IF StartsAt(t, i, pat) THEN i
    ELSE IndexFrom(t, i + 1, pat)

\* t holds the literals lits[k..], one after the other, from position i on
RECURSIVE HoldsInOrder(_, _, _, _)
HoldsInOrder(t, i, lits, k) ==
    IF k > Len(lits) THEN TRUE
    ELSE LET j == IndexFrom(t, i, lits[k])
         IN  j > 0 /\ HoldsInOrder(t, j + Len(lits[k]), lits, k + 1)

\* the trimmed source of input row r (1-based) and what masking makes of it
SourceOf(r) == Strip(RowGet(input_file.rows[r], "source"))
MaskOf(r) == mask_placeholders(SourceOf(r))

RowNumbers == DOMAIN counted

Exited == pc = "exit"

BatchErrors ==
    { "RequestException", "HTTPError", "JSONDecodeError", "ValueError",
      "UnboundLocalError", "ValueError(sleep)" }

BatchFailed == error \in BatchErrors

\* C1: when the run completes, the target value written for a row counted as
\* translated holds every placeholder literal masked out of the row's
\* trimmed source, verbatim and in the order of the source.
C1_PlaceholdersPreserved ==
    \A r \in RowNumbers :
        (Exited /\ exit_code = <<0>> /\ counted[r] = "translated")
            => HoldsInOrder(output.rows[r][target_column], 1,
                            MaskOf(r).placeholders, 1)

\* C2: restoring the masked form of a text with its own placeholder list
\* gives the text back.
C2_RoundTrip == pc = "restored" => restored = text

C4_WriteAfterAllBatches ==
    /\ output.written =>
          /\ ~BatchFailed
          /\ batch_no = Len(batches) + 1
          /\ \A r \in RowNumbers :
                /\ counted[r] # "eligible"
                /\ counted[r] # "skipped" => received[r] # <<>>
    /\ BatchFailed => ~output.written

\* C4 happens: a later batch failed after an earlier batch had changed a
\* row in memory.
C4_Witness ==
    /\ Exited
    /\ BatchFailed
    /\ batch_no > 1
    /\ \E r \in RowNumbers :
          /\ counted[r] = "translated"
          /\ rows[r] # input_file.rows[r]
    /\ ~output.written

\* the column names of the header that was read
HeaderNames ==
    { input_file.fieldnames[k] : k \in 1..Len(input_file.fieldnames) }

\* C5: the exit code is 1 when a credential is missing, the header row is
\* missing, a required column is missing (source, or both translation and
\* translated) or a batch fails, and 0 otherwise.
C5_ExitCodes ==
    Exited =>
        IF \/ Missing(key) \/ Missing(region)
           \/ input_file.fieldnames = <<>>
           \/ "source" \notin HeaderNames
           \/ ("translation" \notin HeaderNames /\ "translated" \notin HeaderNames)
           \/ BatchFailed
        THEN exit_code = <<1>>
        ELSE exit_code = <<0>>

\* the batches one after the other
RECURSIVE Flatten(_)
Flatten(bs) == IF bs = <<>> THEN <<>> ELSE Head(bs) \o Flatten(Tail(bs))

\* C6: the batches, concatenated, are the indices 0 .. len(texts) - 1 in
\* order, and no batch is empty.
C6_BatchesPartition ==
    pc = "batched" =>
        /\ Flatten(batches) = [k \in 1..Len(masked_sources) |-> k - 1]
        /\ \A b \in 1..Len(batches) : batches[b] # <<>>

\* C6 happens: texts spread over several batches, one of them with several
\* items.
C6_Witness ==
    /\ pc = "batched"
    /\ Len(masked_sources) >= 3
    /\ Len(batches) >= 2
    /\ \E b \in 1..Len(batches) : Len(batches[b]) >= 2

\* C7, as claimed: no batch has more than batch_size items, whatever batch
\* size main resolved.
C7_AtMostBatchSize ==
    pc = "batched" => \A b \in 1..Len(batches) : Len(batches[b]) <= batch_size

\* C7, amended: no batch has more than batch_size items when batch_size is
\* at least 1, and every batch has exactly one item when it is 0 or less.
C7_AtMostBatchSizeOrOne ==
    pc = "batched" =>
        \A b \in 1..Len(batches) :
            IF batch_size >= 1 THEN Len(batches[b]) <= batch_size
            ELSE Len(batches[b]) = 1

\* the number of characters of the texts of a batch
RECURSIVE CharsOf(_)
CharsOf(batch) ==
    IF batch = <<>> THEN 0
    ELSE Len(masked_sources[Head(batch) + 1]) + CharsOf(Tail(batch))

\* C7 happens: --batch-size 0 leaves the choice to TRANSLATE_BATCH_SIZE,
\* which gives 2, and the first batch is closed because it is full, not
\* because of its length.
C7_Witness ==
    /\ pc = "batched"
    /\ arg_batch_size = ArgValue(0)
    /\ env_batch_size.set
    /\ batch_size = 2
    /\ Len(batches) = 2
    /\ Len(batches[1]) = 2
    /\ Len(batches[2]) = 1
    /\ CharsOf(Flatten(batches)) <= MAX_CHARS_PER_REQUEST

\* C8: a batch of two or more items has at most 9000 characters in all; a
\* text of more than 9000 characters is a batch of its own.
C8_CharacterCap ==
    pc = "batched" =>
        \A b \in 1..Len(batches) :
            /\ Len(batches[b]) >= 2 => CharsOf(batches[b]) <= 9000
            /\ \A k \in 1..Len(batches[b]) :
                  Len(masked_sources[batches[b][k] + 1]) > 9000
                      => Len(batches[b]) = 1

\* C8 happens: a batch of two items that fills the cap exactly, and a text
\* over the cap alone in its batch.
C8_Witness ==
    /\ pc = "batched"
    /\ \E b \in 1..Len(batches) :
          Len(batches[b]) = 2 /\ CharsOf(batches[b]) = 9000
    /\ \E b \in 1..Len(batches) :
          Len(batches[b]) = 1 /\ CharsOf(batches[b]) > 9000

\* C9: at most max_retries requests are sent for a batch, a request is sent
\* again only after a 429, and when the call gives up without an answer
\* other than 429 it fails with the HTTP error of the last 429 response.
C9_BoundedRetry ==
    /\ Len(http_log) <= max_retries
    /\ \A k \in 1..Len(http_log) : http_log[k].batch = batch_no
    /\ \A k \in 2..Len(http_log) : http_log[k - 1].status = 429
    /\ (Exited /\ BatchFailed
          /\ \A k \in 1..Len(http_log) : http_log[k].status = 429)
          => /\ error = "HTTPError"
             /\ response = <<429>>

\* an unsuccessful status other than 429 has been received
Fatal(k) == http_log[k].status >= 400 /\ http_log[k].status # 429

HasFatal == \E k \in 1..Len(http_log) : Fatal(k)

\* C10: an unsuccessful status other than 429 ends the run: it is the last
\* request of the run, the rows and the output file stay as they were when
\* it was sent, and the exit code is 1.
C10_FatalStatus ==
    /\ [](HasFatal =>
            /\ Exited
            /\ exit_code = <<1>>
            /\ error = "HTTPError"
            /\ ~output.written
            /\ \A k \in 1..Len(http_log) : Fatal(k) => k = Len(http_log))
    /\ [][HasFatal' =>
            /\ rows' = rows
            /\ output' = output
            /\ HasFatal => http_log' = http_log]_vars

\* C10 happens: the status arrives for the second batch, after a 429 for
\* that batch and after the first batch changed a row.
C10_Witness ==
    /\ HasFatal
    /\ batch_no = 2
    /\ Len(batches) >= 2
    /\ \E k \in 1..Len(http_log) : http_log[k].status = 429
    /\ \E r \in RowNumbers : counted[r] = "translated"

\* the last request of the call in progress was answered with 429
LastRateLimited ==
    http_log # <<>> /\ http_log[Len(http_log)].status = 429

\* the header value is present and parses as a number
HeaderIsNumber(h) == h.set /\ ParseFloat(h.value).ok

\* the wait without the jitter, as stated for a 429 on attempt k (0-based)
\* with the Retry-After header h: the header value, otherwise
\* min(15, 1 * 2^k) seconds
StatedDelay(h, k) ==
    IF HeaderIsNumber(h) THEN ParseFloat(h.value).ms
    ELSE Min(15000, 1000 * Pow2(k))

\* C11: after a 429 on attempt k the call waits d + j, j between 0 and 0.5
\* seconds, d the Retry-After value when the header is present and parses
\* as a number and min(15, 2^k) seconds otherwise, never more than 15
\* seconds of backoff; the request sent after the wait has the payload of
\* the one before.
C11_RetryDelay ==
    /\ LastRateLimited =>
          /\ error # "ValueError(sleep)"
          /\ delay # Unbound
          /\ delay[1] - StatedDelay(retry_after, Len(http_log) - 1) \in 0..500
          /\ ~HeaderIsNumber(retry_after) => delay[1] <= 15000 + 500
    /\ \A i \in 2..Len(http_log) :
          /\ http_log[i - 1].status = 429
          /\ http_log[i].payload = http_log[i - 1].payload

\* the rows (1-based) of the batch that the last JSON body answers, in the
\* order of the texts of the request
AnsweredRows ==
    [k \in 1..Len(batches[data[1].batch]) |->
        indices_to_translate[batches[data[1].batch][k] + 1] + 1]

\* the string stated for an item of the body: its translation, the empty
\* string when it carries none
StatedTranslation(item) == IF item.has THEN item.text ELSE <<>>

\* C12: when the body has one item per text of the request, the k-th text
\* gets the string of the k-th item, the empty string for an item without
\* a translation, and no count error is raised; when the body has another
\* number of items the run ends with the count error and exit code 1,
\* nothing is written and no row of the batch is checked or changed.
C12_OnePerText ==
    data # Unbound =>
        IF Len(data[1].items) = Len(AnsweredRows)
        THEN /\ error # "ValueError"
             /\ \A k \in 1..Len(AnsweredRows) :
                   received[AnsweredRows[k]]
                       = <<StatedTranslation(data[1].items[k])>>
        ELSE /\ Exited
             /\ error = "ValueError"
             /\ exit_code = <<1>>
             /\ ~output.written
             /\ \A k \in 1..Len(AnsweredRows) :
                   /\ received[AnsweredRows[k]] = <<>>
                   /\ counted[AnsweredRows[k]] = "eligible"
                   /\ rows[AnsweredRows[k]] = input_file.rows[AnsweredRows[k]]

\* C12 happens: the second batch is answered with one item too many, after
\* the first batch took the empty string for an item without translation
\* and gave it to its row.
C12_Witness ==
    /\ Exited
    /\ error = "ValueError"
    /\ data # Unbound
    /\ data[1].batch = 2
    /\ Len(data[1].items) > Len(batches[2])
    /\ \E r \in RowNumbers :
          /\ received[r] = << <<>> >>
          /\ counted[r] = "translated"
          /\ rows[r][target_column] = <<>>
          /\ input_file.rows[r][target_column] # <<>>

\* the run ended with the summary
Completed == Exited /\ exit_code = <<0>>

\* C13: when the run completes, the output has the header of the input and
\* as many lines, and every cell of it is the cell of the input unless it
\* is in the target column of a row counted as translated.
C13_Frame ==
    Completed =>
        /\ output.written
        /\ output.fieldnames = input_file.fieldnames
        /\ Len(output.lines) = Len(input_file.lines)
        /\ \A r \in 1..Len(input_file.lines) :
              /\ Len(output.lines[r]) = Len(input_file.lines[r])
              /\ \A c \in 1..Len(input_file.lines[r]) :
                    \/ output.lines[r][c] = input_file.lines[r][c]
                    \/ /\ input_file.fieldnames[c] = target_column
                       /\ counted[r] = "translated"

\* the rows have been classified
Selected == pc \in {"post", "write", "exit"} /\ counted # <<>>

\* row r is eligible as stated: its trimmed source is not empty, and its
\* trimmed target is empty or --overwrite is set
StatedEligible(r) ==
    /\ SourceOf(r) # <<>>
    /\ \/ Strip(RowGet(input_file.rows[r], target_column)) = <<>>
       \/ overwrite

\* the rows (1-based) stated eligible among rows r .. n, in order
RECURSIVE StatedEligibleFrom(_, _)
StatedEligibleFrom(r, n) ==
    IF r > n THEN <<>>
    ELSE IF StatedEligible(r) THEN <<r>> \o StatedEligibleFrom(r + 1, n)
    ELSE StatedEligibleFrom(r + 1, n)

\* C14: once the rows are classified, a row is counted as skipped exactly
\* when it is not eligible as stated; the texts to translate are the masked
\* trimmed sources of the eligible rows, in order, and every request holds
\* texts of these only, those of the rows of its batch.
C14_Classification ==
    Selected =>
        LET elig == StatedEligibleFrom(1, Len(input_file.rows))
        IN  /\ \A r \in RowNumbers :
                  counted[r] = "skipped" <=> ~StatedEligible(r)
            /\ Len(counted) = Len(input_file.rows)
            /\ eligible_rows = Len(elig)
            /\ skipped_rows = Len(input_file.rows) - Len(elig)
            /\ indices_to_translate = [k \in 1..Len(elig) |-> elig[k] - 1]
            /\ masked_sources = [k \in 1..Len(elig) |-> MaskOf(elig[k]).masked]
            /\ \A i \in 1..Len(http_log) :
                  http_log[i].payload =
                      [k \in 1..Len(batches[http_log[i].batch]) |->
                          MaskOf(elig[batches[http_log[i].batch][k] + 1]).masked]

\* C14 happens: with --overwrite a row that has a target is sent, and sent
\* again after a 429, while the row before it, with a blank source and a
\* target, was skipped.
C14_Witness ==
    /\ Selected
    /\ overwrite
    /\ Len(counted) = 2
    /\ SourceOf(1) = <<>>
    /\ input_file.rows[1][target_column] # <<>>
    /\ counted[1] = "skipped"
    /\ Strip(input_file.rows[2][target_column]) # <<>>
    /\ Len(http_log) = 2
    /\ http_log[2].payload = <<MaskOf(2).masked>>

\* the positions of t at which a mask token starts
TokenStarts(t) == { i \in 1..Len(t) : PH_RE(t, i) > 0 }

\* the mask tokens that occur in t from position i on, in order: the one
\* that starts first, then those that occur after its end
RECURSIVE TokensFrom(_, _)
TokensFrom(t, i) ==
    LET later == { s \in TokenStarts(t) : s >= i }
    IN  IF later = {} THEN <<>>
        ELSE LET s == CHOOSE s \in later : \A q \in later : s <= q
             IN  <<SubSeq(t, s, s + PH_RE(t, s) - 1)>>
                     \o TokensFrom(t, s + PH_RE(t, s))

TokensOf(t) == TokensFrom(t, 1)

\* sequence q with its k-th element left out
RemoveAt(q, k) == SubSeq(q, 1, k - 1) \o SubSeq(q, k + 1, Len(q))

\* sequence q with its k-th element twice
RepeatAt(q, k) == SubSeq(q, 1, k) \o SubSeq(q, k, Len(q))

\* sequence q with its i-th and j-th elements exchanged
SwapAt(q, i, j) == [q EXCEPT ![i] = q[j], ![j] = q[i]]

\* C15: placeholders_match is true exactly when the two texts hold the same
\* mask tokens in the same order; so it is false when the tokens of the
\* translation are those of the source with one removed, one repeated or
\* two different ones exchanged, or the other way round for an inserted
\* one, and true whatever the text around the same tokens is.
C15_MatchIffSameTokens ==
    pc = "matched" =>
        LET src == TokensOf(qa_source)
            trn == TokensOf(qa_translation)
        IN  /\ qa_result = <<src = trn>>
            /\ (\E k \in 1..Len(src) : trn = RemoveAt(src, k))
                  => qa_result = <<FALSE>>
            /\ (\E k \in 1..Len(trn) : src = RemoveAt(trn, k))
                  => qa_result = <<FALSE>>
            /\ (\E k \in 1..Len(src) : trn = RepeatAt(src, k))
                  => qa_result = <<FALSE>>
            /\ (\E i, j \in 1..Len(src) :
                    src[i] # src[j] /\ trn = SwapAt(src, i, j))
                  => qa_result = <<FALSE>>

\* C15 happens: the translation holds the two tokens of the source in the
\* other order.
C15_Witness ==
    /\ pc = "matched"
    /\ qa_source = PHToken(0) \o PHToken(1)
    /\ qa_translation = PHToken(1) \o PHToken(0)
    /\ qa_result = <<FALSE>>

\* the positions of t at which a placeholder matches
PlaceholderStarts(t) == { i \in 1..Len(t) : PLACEHOLDER_PATTERN(t, i) > 0 }

\* the matches met scanning t from position i on, each with its position
\* and its length: the one that starts first, then those after its end
RECURSIVE MatchesFrom(_, _)
MatchesFrom(t, i) ==
    LET later == { s \in PlaceholderStarts(t) : s >= i }
    IN  IF later = {} THEN <<>>
        ELSE LET s == CHOOSE s \in later : \A q \in later : s <= q
             IN  <<[at |-> s, len |-> PLACEHOLDER_PATTERN(t, s)]>>
                     \o MatchesFrom(t, s + PLACEHOLDER_PATTERN(t, s))

\* t from position i on with the matches ms[k], ms[k + 1], ... replaced by
\* the tokens numbered k - 1, k, ... and the text between them kept
RECURSIVE NumberedFrom(_, _, _, _)
NumberedFrom(t, ms, k, i) ==
    IF k > Len(ms) THEN SubSeq(t, i, Len(t))
    ELSE SubSeq(t, i, ms[k].at - 1) \o PHToken(k - 1)
             \o NumberedFrom(t, ms, k + 1, ms[k].at + ms[k].len)

\* C16: the list mask_placeholders returns has one entry per match, the
\* k-th entry (from 0) being the literal of the k-th match from the left,
\* and the masked text is the text with the k-th match replaced by
\* __PH{k}__ and everything else in place.
C16_SequentialNumbering ==
    pc \in {"restore", "restored"} =>
        LET ms == MatchesFrom(text, 1)
        IN  /\ Len(placeholders) = Len(ms)
            /\ \A k \in 1..Len(ms) :
                  placeholders[k]
                      = SubSeq(text, ms[k].at, ms[k].at + ms[k].len - 1)
            /\ masked = NumberedFrom(text, ms, 1, 1)

\* C16 happens: the same literal twice, around a placeholder of another
\* class, gets the numbers 0 and 2.
C16_Witness ==
    /\ pc = "restore"
    /\ text = <<"%", "s", "{", "a", "}", "%", "s">>
    /\ placeholders = << <<"%", "s">>, <<"{", "a", "}">>, <<"%", "s">> >>
    /\ masked = PHToken(0) \o PHToken(1) \o PHToken(2)

\* the length of the first text of batch number b
FirstLength(b) == Len(masked_sources[batches[b][1] + 1])

\* C17, as claimed: of two consecutive batches, the first has batch_size
\* items or its length plus the length of the first text of the second is
\* more than 9000.
C17_Greedy ==
    pc = "batched" =>
        \A b \in 1..(Len(batches) - 1) :
            \/ Len(batches[b]) = batch_size
            \/ CharsOf(batches[b]) + FirstLength(b + 1) > 9000

\* C17, amended: of two consecutive batches, the first has batch_size items
\* when batch_size is at least 1 and one item when it is 0 or less, so that
\* one item more would be more than batch_size, or its length plus the
\* length of the first text of the second is more than 9000.
C17_GreedyOrOne ==
    pc = "batched" =>
        \A b \in 1..(Len(batches) - 1) :
            \/ Len(batches[b]) = (IF batch_size >= 1 THEN batch_size ELSE 1)
            \/ CharsOf(batches[b]) + FirstLength(b + 1) > 9000

\* C17 happens: with room for three items the first batch is closed after
\* two, which fill the cap exactly, before a text of one character.
C17_Witness ==
    /\ pc = "batched"
    /\ batch_size = 3
    /\ Len(batches) = 2
    /\ Len(batches[1]) = 2
    /\ CharsOf(batches[1]) = 9000
    /\ FirstLength(2) = 1

\* the number of rows that went to counter c
CountedAs(c) == Cardinality({ r \in RowNumbers : counted[r] = c })

\* C18: when the run reaches the summary, the total is the number of input
\* rows and the sum of eligible and skipped, eligible is the sum of
\* translated and QA-failed, and every row went to one of skipped,
\* translated and QA-failed, each counter being the number of its rows.
C18_Counters ==
    Completed =>
        /\ total_rows = Len(input_file.lines)
        /\ total_rows = eligible_rows + skipped_rows
        /\ eligible_rows = translated_rows + qa_failed
        /\ RowNumbers = 1..total_rows
        /\ \A r \in RowNumbers :
              counted[r] \in {"skipped", "translated", "qa_failed"}
        /\ skipped_rows = CountedAs("skipped")
        /\ translated_rows = CountedAs("translated")
        /\ qa_failed = CountedAs("qa_failed")

\* C18 happens: a summary with one skipped row, one QA-failed row and no
\* translated row.
C18_Witness ==
    /\ Completed
    /\ total_rows = 2
    /\ skipped_rows = 1
    /\ eligible_rows = 1
    /\ qa_failed = 1
    /\ translated_rows = 0

\* the row (1-based) whose masked source is the k-th text of the request
\* for batch b
RowAt(b, k) ==
    StatedEligibleFrom(1, Len(input_file.rows))[batches[b][k] + 1]

\* the rows of batch b
RowsOf(b) == { RowAt(b, k) : k \in 1..Len(batches[b]) }

\* row r is what the answer ans makes of it: with the tokens of its own
\* masked source, its target is ans restored with its own placeholder
\* list; otherwise it is as it was read
Aligned(r, ans) ==
    IF TokensOf(ans) = TokensOf(MaskOf(r).masked)
    THEN rows[r] = [input_file.rows[r] EXCEPT ![target_column] =
                        restore_placeholders(ans, MaskOf(r).placeholders)]
    ELSE rows[r] = input_file.rows[r]

\* the last body has one item per text of its request
Answered ==
    data # Unbound /\ Len(data[1].items) = Len(batches[data[1].batch])

\* C19: once a batch is answered, the row whose masked source was the k-th
\* text of the request holds the k-th answer, restored with the row's own
\* placeholder list, or is unchanged when the tokens differ; and a step
\* changes no row but those of the batch it brings the answer for.
C19_Alignment ==
    /\ [](Answered =>
            \A k \in 1..Len(batches[data[1].batch]) :
                Aligned(RowAt(data[1].batch, k),
                        StatedTranslation(data[1].items[k])))
    /\ [][\A r \in DOMAIN rows :
            rows'[r] # rows[r] =>
                /\ data' # Unbound
                /\ data' # data
                /\ r \in (RowsOf(data[1].batch))']_vars

\* C19 happens: two rows with different placeholder lists, sent in two
\* requests, each hold their own answer with their own literals.
C19_Witness ==
    /\ batch_no = 3
    /\ Len(batches) = 2
    /\ counted = <<"translated", "translated">>
    /\ MaskOf(1).placeholders # MaskOf(2).placeholders
    /\ rows[1][target_column] # rows[2][target_column]
    /\ rows[1][target_column] # input_file.rows[1][target_column]
    /\ rows[2][target_column] # input_file.rows[2][target_column]

====
